---- MODULE Spec2Model ----
(***************************************************************************)
(* Model of the trie of native/trie_hard_native/src/trie.rs and of the     *)
(* NIF adapter of native/trie_again_native/src/lib.rs that guards one trie *)
(* with a std::sync::Mutex.                                                *)
(*                                                                         *)
(* A string is a sequence of characters.  Each character has a UTF-8       *)
(* width: str::len() counts bytes, str::chars() counts characters.         *)
(* A TrieNode is a record [value, children]: value is {} for None and {v}  *)
(* for Some(v); children is a function from the characters present in the  *)
(* HashMap to the child nodes.                                             *)
(***************************************************************************)
EXTENDS Integers, Sequences, FiniteSets, TLC

VARIABLES root, poisoned, prev, call, ret, lock, th

vars == <<root, poisoned, prev, call, ret, lock, th>>

---------------------------------------------------------------------------
(* Bounds of the model *)

MaxLen == 2        \* longest key, prefix or word, in characters
MaxKeys == 2       \* most keys holding a value at one time
MaxResults == 2    \* largest max_results passed to auto_complete
MaxWords == 2      \* longest list passed to add_word_list

(* The characters: "a" is encoded in one byte, "e_acute" (U+00E9) in two. *)
Char == {"a", "e_acute"}

len_utf8(ch) == IF ch = "a" THEN 1 ELSE 2

Str == UNION {[1..k -> Char] : k \in 0..MaxLen}

(* Values given to insert; add_word_list stores each word as its own value. *)
InsertValues == {s \in Str : Len(s) = 1}

WordLists == UNION {[1..k -> Str] : k \in 0..MaxWords}

---------------------------------------------------------------------------
(* Strings *)

RECURSIVE str_len(_)
str_len(s) == IF s = <<>> THEN 0 ELSE len_utf8(Head(s)) + str_len(Tail(s))

chars_count(s) == Len(s)

starts_with(s, p) == Len(p) <= Len(s) /\ SubSeq(s, 1, Len(p)) = p

---------------------------------------------------------------------------
(* HashMap<char, TrieNode> *)

EmptyMap == <<>>

MapInsert(m, ch, child) ==
  [c \in (DOMAIN m) \cup {ch} |-> IF c = ch THEN child ELSE m[c]]

MapRemove(m, ch) == [c \in (DOMAIN m) \ {ch} |-> m[c]]

(* The orders in which a HashMap with the key set S may be iterated. *)
IterOrders(S) ==
  {o \in [1..Cardinality(S) -> S] : \A i, j \in 1..Cardinality(S) : o[i] = o[j] => i = j}

---------------------------------------------------------------------------
(* trie.rs *)

TrieNode_new == [value |-> {}, children |-> EmptyMap]

Trie_new == TrieNode_new

SetValue_keep(node, value) ==
  IF node.value = {} THEN [node EXCEPT !.value = {value}] ELSE node

SetValue(node, value) == [node EXCEPT !.value = {value}]

RECURSIVE insert_from_fresh(_, _, _, _)
insert_from_fresh(node, key, i, value) ==
  IF i > chars_count(key) THEN SetValue(node, value)
  ELSE [node EXCEPT !.children =
          MapInsert(node.children, key[i], insert_from_fresh(TrieNode_new, key, i + 1, value))]

RECURSIVE insert_from(_, _, _, _)
insert_from(node, key, i, value) ==
  IF i > chars_count(key) THEN SetValue(node, value)
  ELSE LET ch == key[i]
           child == IF ch \in DOMAIN node.children THEN node.children[ch] ELSE TrieNode_new
       IN  [node EXCEPT !.children = MapInsert(node.children, ch, insert_from(child, key, i + 1, value))]

Trie_insert(trie, key, value) == insert_from(trie, key, 1, value)

RECURSIVE get_from(_, _, _)
get_from(node, key, i) ==
  IF i > chars_count(key) THEN node.value
  ELSE IF key[i] \in DOMAIN node.children THEN get_from(node.children[key[i]], key, i + 1)
  ELSE {}

Trie_get(trie, key) == get_from(trie, key, 1)

IsDead_always(node) == TRUE

IsDead_valueless(node) == node.value = {}

IsDead_never(node) == FALSE

IsDead(node) == node.value = {} /\ DOMAIN node.children = {}

Unlink_never(node, ch, child, should_delete_child) ==
  [node EXCEPT !.children = MapInsert(node.children, ch, child)]

Unlink(node, ch, child, should_delete_child) ==
  IF should_delete_child
  THEN [node EXCEPT !.children = MapRemove(node.children, ch)]
  ELSE [node EXCEPT !.children = MapInsert(node.children, ch, child)]

(* index counts characters from 0 and is compared with the byte length of  *)
(* key; chars().nth(index) is None, and unwrap() panics, when index has    *)
(* reached the number of characters.  The result is the node as the call   *)
(* leaves it, the returned flag, and whether the call panicked.            *)
RECURSIVE Trie_delete_recursive(_, _, _)
Trie_delete_recursive(node, key, index) ==
  IF index = str_len(key)
  THEN IF node.value # {}
       THEN [node |-> [node EXCEPT !.value = {}], ret |-> DOMAIN node.children = {}, panic |-> FALSE]
       ELSE [node |-> node, ret |-> FALSE, panic |-> FALSE]
  ELSE IF index >= chars_count(key)
  THEN [node |-> node, ret |-> FALSE, panic |-> TRUE]
  ELSE LET ch == key[index + 1]
       IN  IF ch \in DOMAIN node.children
           THEN LET r == Trie_delete_recursive(node.children[ch], key, index + 1)
                    after == Unlink(node, ch, r.node, r.ret)
                IN  IF r.panic
                    THEN [node |-> [node EXCEPT !.children = MapInsert(node.children, ch, r.node)],
                          ret |-> FALSE, panic |-> TRUE]
                    ELSE [node |-> after, ret |-> IsDead(after), panic |-> FALSE]
           ELSE [node |-> node, ret |-> IsDead(node), panic |-> FALSE]

Trie_delete_nonempty(trie, key) ==
  IF key = <<>> THEN [trie |-> trie, panic |-> FALSE]
  ELSE LET r == Trie_delete_recursive(trie, key, 0)
       IN  [trie |-> r.node, panic |-> r.panic]

Trie_delete(trie, key) ==
  LET r == Trie_delete_recursive(trie, key, 0)
  IN  [trie |-> r.node, panic |-> r.panic]

RECURSIVE prefix_from(_, _, _)
prefix_from(node, prefix, i) ==
  IF i > chars_count(prefix) THEN TRUE
  ELSE IF prefix[i] \in DOMAIN node.children THEN prefix_from(node.children[prefix[i]], prefix, i + 1)
  ELSE FALSE

Trie_prefix_search_value(trie, prefix) == Trie_get(trie, prefix) # {}

Trie_prefix_search(trie, prefix) == prefix_from(trie, prefix, 1)

Full_late(results, max_results) == Len(results) > max_results

Full_early(results, max_results) == Len(results) + 1 >= max_results

Full(results, max_results) == Len(results) >= max_results

PushIfValue_always(node, prefix, results) == Append(results, prefix)

PushIfValue(node, prefix, results) ==
  IF node.value # {} THEN Append(results, prefix) ELSE results

(* The set of result vectors collect_words may leave, one for each order   *)
(* in which the HashMaps of the subtree are iterated.                      *)
RECURSIVE Trie_collect_words(_, _, _, _)
RECURSIVE collect_children(_, _, _, _, _, _)
collect_children(node, prefix, order, i, rs, max_results) ==
  IF i > Len(order) THEN rs
  ELSE collect_children(node, prefix, order, i + 1,
         UNION {IF Full(r, max_results) THEN {r}
                ELSE Trie_collect_words(node.children[order[i]], Append(prefix, order[i]), r, max_results)
                : r \in rs},
         max_results)

Trie_collect_words_post(node, prefix, results, max_results) ==
  IF Full(results, max_results) THEN {results}
  ELSE UNION {{IF Full(r, max_results) THEN r ELSE PushIfValue(node, prefix, r)
               : r \in collect_children(node, prefix, order, 1, {results}, max_results)}
              : order \in IterOrders(DOMAIN node.children)}

Trie_collect_words(node, prefix, results, max_results) ==
  IF Full(results, max_results) THEN {results}
  ELSE UNION {collect_children(node, prefix, order, 1, {PushIfValue(node, prefix, results)}, max_results)
              : order \in IterOrders(DOMAIN node.children)}

RECURSIVE auto_complete_from(_, _, _, _)
auto_complete_from(node, prefix, i, max_results) ==
  IF i > chars_count(prefix) THEN Trie_collect_words(node, prefix, <<>>, max_results)
  ELSE IF prefix[i] \in DOMAIN node.children
  THEN auto_complete_from(node.children[prefix[i]], prefix, i + 1, max_results)
  ELSE {<<>>}

Trie_auto_complete(trie, prefix, max_results) == auto_complete_from(trie, prefix, 1, max_results)

(* The mapper the adapter passes: |word| word.to_string(). *)
value_mapper(word) == word

RECURSIVE add_from_short(_, _, _)
add_from_short(trie, words, i) ==
  IF i >= Len(words) THEN trie
  ELSE add_from_short(Trie_insert(trie, words[i], value_mapper(words[i])), words, i + 1)

RECURSIVE add_from(_, _, _)
add_from(trie, words, i) ==
  IF i > Len(words) THEN trie
  ELSE add_from(Trie_insert(trie, words[i], value_mapper(words[i])), words, i + 1)

Trie_add_word_list(trie, words) == add_from(trie, words, 1)

---------------------------------------------------------------------------
(* Observations of a tree *)

StoredKeys(trie) == {k \in Str : Trie_get(trie, k) # {}}

RECURSIVE CountValues(_)
RECURSIVE SumValues(_, _)
SumValues(node, S) ==
  IF S = {} THEN 0
  ELSE LET c == CHOOSE x \in S : TRUE
       IN  CountValues(node.children[c]) + SumValues(node, S \ {c})

CountValues(node) ==
  (IF node.value # {} THEN 1 ELSE 0) + SumValues(node, DOMAIN node.children)

(* Every node below the given one has a value or a child. *)
RECURSIVE NoDeadBelow(_)
NoDeadBelow(node) ==
  \A c \in DOMAIN node.children :
     /\ ~ (node.children[c].value = {} /\ DOMAIN node.children[c].children = {})
     /\ NoDeadBelow(node.children[c])

---------------------------------------------------------------------------
(* lib.rs: one handle, its Mutex<Trie<String>>, and the NIFs.              *)
(* prev, call and ret record the tree before the last call, the call and   *)
(* what it returned.                                                       *)

(* The callers that may be inside a NIF at the same time, and where each   *)
(* is: the call it runs, the words add_word_list has inserted so far and   *)
(* the tree it found when it got the lock.                                 *)
Threads == {"t1", "t2"}

Free == "free"

NoCall == [op |-> "new_trie", key |-> <<>>, value |-> <<>>, n |-> 0, words |-> <<>>]

Ret(tag, val) == [tag |-> tag, val |-> val]

Idle == [pc |-> "idle", call |-> NoCall, i |-> 0, snap |-> Trie_new]

Init ==
  /\ root = Trie_new
  /\ poisoned = FALSE
  /\ prev = Trie_new
  /\ call = NoCall
  /\ ret = Ret("ok", <<>>)
  /\ lock = Free
  /\ th = [t \in Threads |-> Idle]

new_trie ==
  /\ root' = Trie_new
  /\ poisoned' = FALSE
  /\ prev' = Trie_new
  /\ UNCHANGED <<lock, th>>
  /\ call' = NoCall
  /\ ret' = Ret("ok", <<>>)

insert ==
  \E key \in Str, value \in InsertValues :
    /\ call' = [NoCall EXCEPT !.op = "insert", !.key = key, !.value = value]
    /\ prev' = root
    /\ UNCHANGED <<lock, th>>
    /\ IF poisoned
       THEN /\ ret' = Ret("error", <<>>)
            /\ UNCHANGED <<root, poisoned>>
       ELSE /\ CountValues(Trie_insert(root, key, value)) <= MaxKeys
            /\ root' = Trie_insert(root, key, value)
            /\ ret' = Ret("ok", <<>>)
            /\ UNCHANGED poisoned

get_swallow ==
  \E key \in Str :
    /\ call' = [NoCall EXCEPT !.op = "get", !.key = key]
    /\ prev' = root
    /\ UNCHANGED <<lock, th>>
    /\ ret' = IF poisoned \/ Trie_get(root, key) = {} THEN Ret("not_found", {})
              ELSE Ret("ok", Trie_get(root, key))
    /\ UNCHANGED <<root, poisoned>>

get ==
  \E key \in Str :
    /\ call' = [NoCall EXCEPT !.op = "get", !.key = key]
    /\ prev' = root
    /\ UNCHANGED <<lock, th>>
    /\ ret' = IF poisoned THEN Ret("error", {})
              ELSE IF Trie_get(root, key) # {} THEN Ret("ok", Trie_get(root, key))
              ELSE Ret("not_found", {})
    /\ UNCHANGED <<root, poisoned>>

delete ==
  \E key \in Str :
    /\ call' = [NoCall EXCEPT !.op = "delete", !.key = key]
    /\ prev' = root
    /\ UNCHANGED <<lock, th>>
    /\ IF poisoned
       THEN /\ ret' = Ret("error", <<>>)
            /\ UNCHANGED <<root, poisoned>>
       ELSE LET r == Trie_delete(root, key)
            IN  /\ root' = r.trie
                /\ poisoned' = r.panic
                /\ ret' = IF r.panic THEN Ret("panic", <<>>) ELSE Ret("ok", <<>>)

prefix_search ==
  \E prefix \in Str :
    /\ call' = [NoCall EXCEPT !.op = "prefix_search", !.key = prefix]
    /\ prev' = root
    /\ UNCHANGED <<lock, th>>
    /\ ret' = IF poisoned THEN Ret("error", FALSE)
              ELSE Ret("ok", Trie_prefix_search(root, prefix))
    /\ UNCHANGED <<root, poisoned>>

auto_complete ==
  \E prefix \in Str, max_results \in 0..MaxResults :
    /\ call' = [NoCall EXCEPT !.op = "auto_complete", !.key = prefix, !.n = max_results]
    /\ prev' = root
    /\ UNCHANGED <<lock, th>>
    /\ IF poisoned
       THEN ret' = Ret("error", <<>>)
       ELSE \E results \in Trie_auto_complete(root, prefix, max_results) :
               ret' = Ret("ok", results)
    /\ UNCHANGED <<root, poisoned>>

add_word_list ==
  \E words \in WordLists :
    /\ call' = [NoCall EXCEPT !.op = "add_word_list", !.words = words]
    /\ prev' = root
    /\ UNCHANGED <<lock, th>>
    /\ IF poisoned
       THEN /\ ret' = Ret("error", <<>>)
            /\ UNCHANGED <<root, poisoned>>
       ELSE /\ CountValues(Trie_add_word_list(root, words)) <= MaxKeys
            /\ root' = Trie_add_word_list(root, words)
            /\ ret' = Ret("ok", <<>>)
            /\ UNCHANGED poisoned

Next ==
  \/ new_trie
  \/ insert
  \/ get
  \/ delete
  \/ prefix_search
  \/ auto_complete
  \/ add_word_list

Spec == Init /\ [][Next]_vars

---------------------------------------------------------------------------
(* lib.rs with concurrent callers.  A NIF takes the lock of the handle     *)
(* (acquire), runs the core operation under the guard, add_word_list one   *)
(* word of its loop at a time (add_word), and drops the guard as it        *)
(* returns (finish).  call, ret and prev describe the call that returned   *)
(* in the last step.                                                       *)

Call(op, key, value, n, words) ==
  [op |-> op, key |-> key, value |-> value, n |-> n, words |-> words]

Calls ==
  {Call("insert", k, v, 0, <<>>) : k \in Str, v \in InsertValues}
    \cup {Call(op, k, <<>>, 0, <<>>) : op \in {"get", "delete", "prefix_search"}, k \in Str}
    \cup {Call("auto_complete", k, <<>>, n, <<>>) : k \in Str, n \in 0..MaxResults}
    \cup {Call("add_word_list", <<>>, <<>>, 0, ws) : ws \in WordLists}

(* What the Ok(trie) arm of the NIF of call c does to the tree and returns. *)
Apply(trie, c) ==
  CASE c.op = "insert" ->
         {[trie |-> Trie_insert(trie, c.key, c.value), ret |-> Ret("ok", <<>>)]}
    [] c.op = "get" ->
         {[trie |-> trie,
           ret |-> IF Trie_get(trie, c.key) # {} THEN Ret("ok", Trie_get(trie, c.key))
                   ELSE Ret("not_found", {})]}
    [] c.op = "delete" ->
         {[trie |-> Trie_delete(trie, c.key).trie,
           ret |-> IF Trie_delete(trie, c.key).panic THEN Ret("panic", <<>>) ELSE Ret("ok", <<>>)]}
    [] c.op = "prefix_search" ->
         {[trie |-> trie, ret |-> Ret("ok", Trie_prefix_search(trie, c.key))]}
    [] c.op = "auto_complete" ->
         {[trie |-> trie, ret |-> Ret("ok", results)] : results \in Trie_auto_complete(trie, c.key, c.n)}
    [] c.op = "add_word_list" ->
         {[trie |-> Trie_add_word_list(trie, c.words), ret |-> Ret("ok", <<>>)]}

(* What the Err(_) arm returns. *)
LockError(c) ==
  CASE c.op = "get" -> Ret("error", {})
    [] c.op = "prefix_search" -> Ret("error", FALSE)
    [] OTHER -> Ret("error", <<>>)

CanAcquire_always == TRUE

(* Mutex::lock returns once no other caller holds the guard. *)
CanAcquire == lock = Free

acquire(t) ==
  /\ th[t].pc = "idle"
  /\ CanAcquire
  /\ \E c \in Calls :
       IF poisoned
       THEN /\ call' = c
            /\ ret' = LockError(c)
            /\ prev' = root
            /\ UNCHANGED <<root, poisoned, lock, th>>
       ELSE /\ \A o \in Apply(root, c) : CountValues(o.trie) <= MaxKeys
            /\ lock' = t
            /\ th' = [th EXCEPT ![t] = [pc |-> "locked", call |-> c, i |-> 0, snap |-> root]]
            /\ call' = NoCall
            /\ ret' = Ret("ok", <<>>)
            /\ prev' = root
            /\ UNCHANGED <<root, poisoned>>

add_word(t) ==
  /\ th[t].pc = "locked"
  /\ th[t].call.op = "add_word_list"
  /\ th[t].i < Len(th[t].call.words)
  /\ LET word == th[t].call.words[th[t].i + 1]
     IN  root' = Trie_insert(root, word, value_mapper(word))
  /\ th' = [th EXCEPT ![t].i = @ + 1]
  /\ UNCHANGED <<poisoned, lock, prev, call, ret>>

finish(t) ==
  /\ th[t].pc = "locked"
  /\ IF th[t].call.op = "add_word_list"
     THEN /\ th[t].i = Len(th[t].call.words)
          /\ ret' = Ret("ok", <<>>)
          /\ UNCHANGED <<root, poisoned>>
     ELSE \E o \in Apply(root, th[t].call) :
            /\ root' = o.trie
            /\ ret' = o.ret
            /\ poisoned' = (o.ret.tag = "panic")
  /\ call' = th[t].call
  /\ prev' = th[t].snap
  /\ lock' = Free
  /\ th' = [th EXCEPT ![t] = Idle]

NextConc ==
  \/ \E t \in Threads : acquire(t)
  \/ \E t \in Threads : add_word(t)
  \/ \E t \in Threads : finish(t)

SpecConc == Init /\ [][NextConc]_vars

(* The call reached the trie: the lock was acquired. *)
Ran(op) == call.op = op /\ ret.tag # "error"

(* The stored keys that start with the prefix p. *)
Completions(trie, p) == {k \in StoredKeys(trie) : starts_with(k, p)}

Elems(seq) == {seq[i] : i \in 1..Len(seq)}

(* The delete call reached the trie, whether it returned or panicked. *)
Deleted == call.op = "delete" /\ ret.tag # "error"

---------------------------------------------------------------------------
(* Claims *)

(* C1: after insert(k, v), get(k) returns v, also when k held another      *)
(* value before.                                                           *)
C1_InsertThenGet ==
  Ran("insert") => Trie_get(root, call.key) = {call.value}

C1_Witness ==
  /\ Ran("insert")
  /\ Trie_get(prev, call.key) # {}
  /\ Trie_get(prev, call.key) # {call.value}
  /\ Trie_get(root, call.key) = {call.value}

(* C2: after delete(k) of a key k that held a value, get(k) reports        *)
(* not-found, whatever the encoded width of the characters of k.           *)
C2_DeleteRemoves ==
  (Deleted /\ Trie_get(prev, call.key) # {}) => Trie_get(root, call.key) = {}

(* C3: every operation returns normally; none panics. *)
C3_Total == ret.tag # "panic"

(* C4: every node other than the root has a value or a child, and a        *)
(* value-less childless root means the trie holds no key.                  *)
C4_NoDeadNode ==
  /\ NoDeadBelow(root)
  /\ (root.value = {} /\ DOMAIN root.children = {}) => StoredKeys(root) = {}

C4_Witness ==
  /\ Ran("delete")
  /\ call.key # <<>>
  /\ Trie_get(prev, call.key) # {}
  /\ ~ Trie_prefix_search(root, call.key)
  /\ root # Trie_new

(* C5: delete(k) of a key that holds no value leaves the tree unchanged:   *)
(* same nodes and values, same get and prefix_search results.              *)
C5_DeleteMissingNoOp ==
  (Deleted /\ Trie_get(prev, call.key) = {}) =>
     /\ root = prev
     /\ \A k \in Str : /\ Trie_get(root, k) = Trie_get(prev, k)
                       /\ Trie_prefix_search(root, k) = Trie_prefix_search(prev, k)

(* The path of k ends early, in a trie that is not empty. *)
C5_Witness ==
  /\ Ran("delete")
  /\ Trie_get(prev, call.key) = {}
  /\ ~ Trie_prefix_search(prev, call.key)
  /\ Trie_prefix_search(prev, SubSeq(call.key, 1, 1))
  /\ StoredKeys(prev) # {}

(* C6: delete(k) keeps every other key: get(k2) is the same before and     *)
(* after for every k2 # k, and every prefix of a key that still holds a    *)
(* value is still found by prefix_search.                                  *)
C6_DeletePreservesOthers ==
  Deleted =>
     /\ \A k2 \in Str \ {call.key} : Trie_get(root, k2) = Trie_get(prev, k2)
     /\ \A k2 \in StoredKeys(root) : \A p \in Str :
           starts_with(k2, p) => Trie_prefix_search(root, p)

(* k is removed and a key that shares a proper prefix with it is kept. *)
C6_Witness ==
  /\ Ran("delete")
  /\ ret.tag = "ok"
  /\ Trie_get(prev, call.key) # {}
  /\ Trie_get(root, call.key) = {}
  /\ \E k2 \in StoredKeys(root) :
        /\ Len(k2) = Len(call.key)
        /\ Len(k2) > 1
        /\ k2 # call.key
        /\ SubSeq(k2, 1, Len(k2) - 1) = SubSeq(call.key, 1, Len(k2) - 1)

(* C7: where k holds no value, insert(k, v) followed by delete(k) restores *)
(* exactly the tree that existed before the insert.                        *)
C7_InsertDeleteRestores ==
  [][(/\ call.op = "insert"
      /\ ret.tag = "ok"
      /\ Trie_get(prev, call.key) = {}
      /\ call'.op = "delete"
      /\ call'.key = call.key) => root' = prev]_vars

(* C8: every string returned by auto_complete(p, n) starts with p and is a *)
(* key that holds a value.                                                 *)
C8_OnlyValidCompletions ==
  Ran("auto_complete") =>
     \A i \in 1..Len(ret.val) :
        /\ starts_with(ret.val[i], call.key)
        /\ Trie_get(root, ret.val[i]) # {}

(* A result below a prefix whose subtree has a value-less node. *)
C8_Witness ==
  /\ Ran("auto_complete")
  /\ Len(ret.val) >= 1
  /\ \E q \in Str : /\ starts_with(q, call.key)
                    /\ Trie_prefix_search(root, q)
                    /\ Trie_get(root, q) = {}

(* C9: auto_complete(p, n) returns at most n entries. *)
C9_AtMostN ==
  Ran("auto_complete") => Len(ret.val) <= call.n

(* The cap cuts the traversal short. *)
C9_Witness ==
  /\ Ran("auto_complete")
  /\ call.n >= 1
  /\ Len(ret.val) = call.n
  /\ Cardinality(Completions(root, call.key)) > call.n

(* C10: when the m stored keys that start with p are at most n,            *)
(* auto_complete(p, n) returns all m, each once.                           *)
C10_CompleteBelowCap ==
  (Ran("auto_complete") /\ Cardinality(Completions(root, call.key)) <= call.n) =>
     /\ Elems(ret.val) = Completions(root, call.key)
     /\ Len(ret.val) = Cardinality(Completions(root, call.key))

C10_Witness ==
  /\ Ran("auto_complete")
  /\ Cardinality(Completions(root, call.key)) = call.n
  /\ call.n >= 2
  /\ Len(ret.val) = call.n

(* C11: when prefix_search(p) is true it is true for every prefix of p,    *)
(* and prefix_search of the empty prefix is always true.                   *)
C11_PrefixMonotone ==
  Ran("prefix_search") =>
     /\ ret.val => \A q \in Str : starts_with(call.key, q) => Trie_prefix_search(root, q)
     /\ call.key = <<>> => ret.val

(* A found prefix of two characters whose one-character prefix holds no    *)
(* value.                                                                  *)
C11_Witness ==
  /\ Ran("prefix_search")
  /\ ret.val
  /\ Len(call.key) = 2
  /\ Trie_get(root, SubSeq(call.key, 1, 1)) = {}

(* insert(w1, f(w1)), ..., insert(wn, f(wn)) one after another. *)
RECURSIVE InsertEach(_, _)
InsertEach(trie, words) ==
  IF words = <<>> THEN trie
  ELSE InsertEach(Trie_insert(trie, Head(words), value_mapper(Head(words))), Tail(words))

(* C12: add_word_list(words, f) leaves the tree that the inserts of the    *)
(* words, one after another in input order, leave; each word then holds    *)
(* the value of its last occurrence.                                       *)
C12_BulkLoadEquivalence ==
  Ran("add_word_list") =>
     /\ root = InsertEach(prev, call.words)
     /\ \A i \in 1..Len(call.words) :
           Trie_get(root, call.words[i]) = {value_mapper(call.words[i])}

(* Two different words, the last of which replaces a value given by insert. *)
C12_Witness ==
  /\ Ran("add_word_list")
  /\ Len(call.words) = 2
  /\ call.words[1] # call.words[2]
  /\ Trie_get(prev, call.words[2]) # {}
  /\ Trie_get(prev, call.words[2]) # {call.words[2]}

(* C14: a call on a handle whose lock is poisoned reports the error tag,   *)
(* never ok or not_found, and leaves the trie unchanged.                   *)
C14_PoisonedReportsError ==
  [][(poisoned /\ call'.op # "new_trie") => (ret'.tag = "error" /\ root' = root)]_vars

(* A get of an absent key on a poisoned handle: error, not not_found. *)
C14_Witness ==
  /\ poisoned
  /\ call.op = "get"
  /\ ret.tag = "error"
  /\ Trie_get(root, call.key) = {}

(* C15: the root is the node of the empty key: insert("", v) sets its      *)
(* value, get("") returns it, delete("") clears it and keeps the root and  *)
(* its children; a trie from which every key was removed is the new trie,  *)
(* on a handle that still works.                                           *)
C15_RootIsEmptyKeyNode ==
  /\ (Ran("insert") /\ call.key = <<>>) => root = [prev EXCEPT !.value = {call.value}]
  /\ (Ran("get") /\ call.key = <<>>) =>
        /\ ret.val = root.value
        /\ ret.tag = IF root.value = {} THEN "not_found" ELSE "ok"
  /\ (Deleted /\ call.key = <<>>) =>
        /\ ret.tag = "ok"
        /\ root = [prev EXCEPT !.value = {}]
  /\ StoredKeys(root) = {} => (root = Trie_new /\ ~ poisoned)

(* delete("") removes the only key: the root is left without value and     *)
(* without child.                                                          *)
C15_Witness ==
  /\ Deleted
  /\ call.key = <<>>
  /\ prev.value # {}
  /\ root = Trie_new

ProperPrefix(k, k2) == starts_with(k2, k) /\ k # k2

(* C16: auto_complete emits keys in pre-order: a returned key comes before *)
(* every returned key that extends it; with a returned key, every stored   *)
(* key between the prefix and it is returned too; and a prefix that holds  *)
(* a value is the first result when n >= 1.                                *)
C16_PreOrder ==
  Ran("auto_complete") =>
     /\ \A i, j \in 1..Len(ret.val) : ProperPrefix(ret.val[i], ret.val[j]) => i < j
     /\ \A i \in 1..Len(ret.val) : \A k2 \in Completions(root, call.key) :
           starts_with(ret.val[i], k2) => k2 \in Elems(ret.val)
     /\ (Trie_get(root, call.key) # {} /\ call.n >= 1) =>
           (Len(ret.val) >= 1 /\ ret.val[1] = call.key)

(* The cap cuts the traversal below the one returned key, which is not the *)
(* prefix itself.                                                          *)
C16_Witness ==
  /\ Ran("auto_complete")
  /\ call.n = 1
  /\ Len(ret.val) = 1
  /\ ret.val[1] # call.key
  /\ \E k2 \in StoredKeys(root) : ProperPrefix(ret.val[1], k2)

(* C17: for every non-empty prefix p, prefix_search(p) is true exactly     *)
(* when some key that holds a value starts with p; when none does,         *)
(* auto_complete(p, n) is empty.                                           *)
C17_NoGhostPrefix ==
  /\ \A p \in Str \ {<<>>} : Trie_prefix_search(root, p) <=> Completions(root, p) # {}
  /\ (Ran("auto_complete") /\ Completions(root, call.key) = {}) => ret.val = <<>>

(* The delete of the last key below a one-character prefix, in a trie that *)
(* keeps another key: the prefix is no longer found.                       *)
C17_Witness ==
  /\ Ran("delete")
  /\ Len(call.key) = 2
  /\ Completions(prev, SubSeq(call.key, 1, 1)) = {call.key}
  /\ ~ Trie_prefix_search(root, SubSeq(call.key, 1, 1))
  /\ StoredKeys(root) # {}

(* C18: insert(k, v) changes the result of get for k only, and removes no  *)
(* node: every path that existed still exists.                             *)
C18_InsertFrame ==
  Ran("insert") =>
     /\ \A k2 \in Str \ {call.key} : Trie_get(root, k2) = Trie_get(prev, k2)
     /\ \A p \in Str : Trie_prefix_search(prev, p) => Trie_prefix_search(root, p)

(* The inserted key is a value-less inner node: the tree holds one of its  *)
(* extensions.                                                             *)
C18_Witness ==
  /\ Ran("insert")
  /\ call.key # <<>>
  /\ Trie_get(prev, call.key) = {}
  /\ \E k2 \in StoredKeys(prev) : ProperPrefix(call.key, k2)
  /\ StoredKeys(root) = StoredKeys(prev) \cup {call.key}

(* C19: no sequence of calls leaves the lock of the handle poisoned: every *)
(* call acquires the lock and never returns the error tag.                 *)
C19_NeverError == ret.tag # "error"

Inside == {t \in Threads : th[t].pc = "locked"}

(* C13: at most one call runs on the trie at a time and it holds the lock; *)
(* a call starts only when no other call is in progress, so it never sees  *)
(* a partly applied add_word_list; and each call leaves the tree and       *)
(* returns the result of the whole operation applied to the tree it found  *)
(* when it got the lock, so the calls are as if run one after another.     *)
C13_Atomic ==
  [][/\ Cardinality(Inside) <= 1
     /\ \A t \in Inside : lock = t
     /\ \A t \in Threads :
          (th[t].pc = "idle" /\ th'[t].pc = "locked") => (Inside = {} /\ th'[t].snap = root)
     /\ \A t \in Threads :
          (th[t].pc = "locked" /\ th'[t].pc = "idle") =>
             \E o \in Apply(th[t].snap, th[t].call) : root' = o.trie /\ ret' = o.ret]_vars

(* A caller holds the lock with the first of two words of add_word_list    *)
(* inserted; the other caller cannot get the lock.                         *)
C13_Witness ==
  \E t \in Threads :
    /\ th[t].pc = "locked"
    /\ th[t].call.op = "add_word_list"
    /\ th[t].i = 1
    /\ Len(th[t].call.words) = 2
    /\ root # th[t].snap
    /\ \E o \in Apply(th[t].snap, th[t].call) : root # o.trie
    /\ \A u \in Threads \ {t} : th[u].pc = "idle" /\ ~ ENABLED acquire(u)

====
